---- MODULE Spec2Model ----
(***************************************************************************)
(* Sale settlement and payout reconciliation of instant-sale (server.js):  *)
(* the Stripe webhook handler, the success page, the return-flow drain and *)
(* the administrative drain, over the MongoDB collections ProcessedEvent,  *)
(* DownloadToken, PendingTransfer and User, and the Stripe objects they    *)
(* read and create.  Every await of a handler that touches shared state is *)
(* one atomic step, so handlers of different requests interleave between   *)
(* their awaits as they do on the Node event loop.                         *)
(***************************************************************************)
EXTENDS Integers, Sequences, FiniteSets, Bags, TLC

VARIABLES
  env,              \* process.env as read by the handlers
  users,            \* User collection: stripeAccountId, payoutsEnabled
  accounts,         \* Stripe connected accounts (live state at the processor)
  sessions,         \* Stripe checkout sessions and their payment-intents
  processedEvents,  \* ProcessedEvent collection: rows per event id
  tokens,           \* DownloadToken collection
  pending,          \* PendingTransfer collection, in natural (insertion) order
  transfers,        \* bag of the transfers created at the processor
  wh,               \* POST /webhooks/stripe: one record per in-flight handler
  sp,               \* GET /success handler
  rd,               \* GET /connect/return handler
  ad,               \* POST /admin/retry-pending handler
  dl,               \* GET /download/:token handler
  sy,               \* getConnectStatus(user), called by the seller's pages
  rs,               \* POST /connect/reset handler
  co,               \* POST /checkout/:slug: what the last checkout saw and sent
  now,              \* Date.now(), in minutes since the server started
  nRequests,        \* requests received so far
  feeIn,            \* the price of the item whose fee split is computed
  feeOut            \* the fee split computed for it

vars == <<env, users, accounts, sessions, processedEvents, tokens, pending,
          transfers, wh, sp, rd, ad, dl, sy, rs, co, now, nRequests, feeIn, feeOut>>

----------------------------------------------------------------------------
(* Bounds *)

MaxSessions   == 1
MaxRequests   == 3
MaxPrice      == 120
MaxFeePercent == 100
MaxRows       == 2

\* DOWNLOAD_TOKEN_TTL_MIN, by default
TokenTtlMin == 120

\* DAYS_180_MS, in minutes
Days180 == 60 * 24 * 180

\* the instants at which the clock is read
Instants == {0, TokenTtlMin, TokenTtlMin + 1, Days180, Days180 + 1}

\* the token strings a download request may carry
TokenStrings == {1, 2}

\* webhook requests that can be in flight at once
Handlers == {1, 2}

(* The world the handlers run in *)

Users   == {"u1"}
NoUser  == "none"
NoAcct  == ""
AcctOf(u) == "acct_u1"
AcctIds == {AcctOf(u) : u \in Users}

Items == {"i1", "i3"}

\* an item whose fee is not a whole number of yen at some percents
OddItems  == {"i2"}
Catalogue == Items \cup OddItems
ItemDb ==
  [i \in Catalogue |->
     IF i = "i1" THEN [price |-> 1000, currency |-> "jpy", ownerUser |-> "u1"]
     ELSE IF i = "i2" THEN [price |-> 100, currency |-> "jpy", ownerUser |-> "u1"]
     ELSE [price |-> 300, currency |-> "jpy", ownerUser |-> NoUser]]

SessionIds == 1..MaxSessions
NoSession  == [item |-> "none", dest |-> NoAcct, status |-> "absent"]

Completed      == "checkout.session.completed"
AsyncSucceeded == "checkout.session.async_payment_succeeded"
AsyncFailed    == "checkout.session.async_payment_failed"
EventTypes     == {Completed, AsyncSucceeded, AsyncFailed}
EventIds       == EventTypes \X SessionIds

\* process.env.ADMIN_TOKEN ("" when unset) and the bearer tokens requests carry
AdminTokens  == {"", "secret"}
BearerTokens == {"", "secret", "wrong"}

\* process.env.PLATFORM_FEE_PERCENT: unset, or a number of percent
EnvUnset     == -1
EnvFeeValues == {20, 100}
SaleFeeValues == {20, 29}

----------------------------------------------------------------------------
(* Number arithmetic of the fee computation.  JavaScript numbers are IEEE  *)
(* doubles: feePercent / 100 is rounded to 53 significant bits, and so is  *)
(* its product with the price, before Math.floor.  Naturals beyond 2^31    *)
(* are little-endian sequences of 15-bit limbs.                            *)

LimbBits     == 15
LimbBase     == 32768
MantissaBits == 53

RECURSIVE Pow2(_)
Pow2(n) == IF n = 0 THEN 1 ELSE 2 * Pow2(n - 1)

RECURSIVE BitLen(_)
BitLen(n) == IF n = 0 THEN 0 ELSE 1 + BitLen(n \div 2)

RECURSIVE Trim(_)
Trim(N) == IF N # <<>> /\ N[Len(N)] = 0 THEN Trim(SubSeq(N, 1, Len(N) - 1)) ELSE N

NatBitLen(N) == IF N = <<>> THEN 0 ELSE LimbBits * (Len(N) - 1) + BitLen(N[Len(N)])

RECURSIVE DivSmall(_, _)
DivSmall(N, d) ==
  IF N = <<>> THEN [q |-> <<>>, r |-> 0]
  ELSE LET hi == DivSmall(Tail(N), d)
           t  == hi.r * LimbBase + Head(N)
       IN [q |-> <<t \div d>> \o hi.q, r |-> t % d]

RECURSIVE MulSmall(_, _, _)
MulSmall(N, m, carry) ==
  IF N = <<>> THEN (IF carry = 0 THEN <<>> ELSE <<carry>>)
  ELSE LET t == m * Head(N) + carry
       IN <<t % LimbBase>> \o MulSmall(Tail(N), m, t \div LimbBase)

RECURSIVE AddSmall(_, _)
AddSmall(N, c) ==
  IF c = 0 THEN N
  ELSE IF N = <<>> THEN <<c>>
  ELSE LET t == Head(N) + c
       IN <<t % LimbBase>> \o AddSmall(Tail(N), t \div LimbBase)

RECURSIVE NatToInt(_)
NatToInt(N) == IF N = <<>> THEN 0 ELSE Head(N) + LimbBase * NatToInt(Tail(N))

\* N / d rounded to the nearest integer, ties to even (IEEE round-to-nearest)
RoundDiv(N, d) ==
  LET x  == DivSmall(N, d)
      up == 2 * x.r > d \/ (2 * x.r = d /\ x.q # <<>> /\ x.q[1] % 2 = 1)
  IN Trim(IF up THEN AddSmall(x.q, 1) ELSE x.q)

\* the double nearest to n / 100 for n in 1..100: sig * 2^exp
DoubleDiv100(n) ==
  LET j == CHOOSE k \in 0..7 : n * Pow2(k) >= 100 /\ (k = 0 \/ n * Pow2(k - 1) < 100)
      x == n * Pow2(7 + j)
  IN [sig |-> RoundDiv(<<0, 0, 0, x % LimbBase, x \div LimbBase>>, 100),
      exp |-> -(52 + j)]

\* the double nearest to m * x, for an integer 0 < m < 2^15
DoubleMulInt(m, x) ==
  LET prod == Trim(MulSmall(x.sig, m, 0))
      d    == NatBitLen(prod) - MantissaBits
  IN IF d <= 0 THEN [sig |-> prod, exp |-> x.exp]
     ELSE [sig |-> RoundDiv(prod, Pow2(d)), exp |-> x.exp + d]

\* Math.floor of a double sig * 2^exp with exp < 0
MathFloor(x) ==
  LET s    == -x.exp
      kept == SubSeq(x.sig, (s \div LimbBits) + 1, Len(x.sig))
  IN NatToInt(Trim(DivSmall(kept, Pow2(s % LimbBits)).q))

\* Math.floor(item.price * (feePercent / 100))
Fee(price, feePercent) ==
  IF price = 0 \/ feePercent = 0 THEN 0
  ELSE MathFloor(DoubleMulInt(price, DoubleDiv100(feePercent)))

\* Number(process.env.PLATFORM_FEE_PERCENT || 0), as the webhook reads it
WebhookFeePercent == IF env.PLATFORM_FEE_PERCENT = EnvUnset THEN 0 ELSE env.PLATFORM_FEE_PERCENT

\* Number(process.env.PLATFORM_FEE_PERCENT || '20'), as checkout reads it
CheckoutFeePercent ==
  IF env.PLATFORM_FEE_PERCENT = EnvUnset THEN 20 ELSE env.PLATFORM_FEE_PERCENT

\* Math.max(0, Math.floor(item.price * (PLATFORM_FEE_PERCENT / 100)))
PlatformFee(price) ==
  LET f == Fee(price, CheckoutFeePercent) IN IF f < 0 THEN 0 ELSE f

\* item.price - fee
SellerAmount(i) == ItemDb[i].price - Fee(ItemDb[i].price, WebhookFeePercent)

\* `item_${item._id}`
TransferGroup(i) ==
  IF i = "i1" THEN "item_i1" ELSE IF i = "i2" THEN "item_i2" ELSE "item_i3"

----------------------------------------------------------------------------
(* Collections *)

RemoveAt(rows, k) == SubSeq(rows, 1, k - 1) \o SubSeq(rows, k + 1, Len(rows))

\* the PendingTransfer rows matching { paymentIntentId: pi }
RowsOfPI(rows, pi) == {k \in DOMAIN rows : rows[k].paymentIntentId = pi}

FirstOf(S) == CHOOSE k \in S : \A m \in S : k <= m

\* an insert where the code upserts
InsertPending(rows, id, doc) ==
  Append(rows, [id |-> id, seller |-> doc.seller, item |-> doc.item,
                amount |-> doc.amount, currency |-> doc.currency,
                paymentIntentId |-> doc.paymentIntentId,
                transferGroup |-> doc.transferGroup, reason |-> doc.reason,
                expiresAt |-> now + Days180, status |-> "queued"])

\* PendingTransfer.updateOne({ paymentIntentId }, doc, { upsert: true }):
\* the first matching row takes the fields of doc, else doc is inserted with
\* the schema defaults (expiresAt 180 days from now, status queued)
UpsertPending(rows, id, doc) ==
  LET hit == RowsOfPI(rows, doc.paymentIntentId)
  IN IF hit # {}
       THEN [rows EXCEPT ![FirstOf(hit)] =
               [@ EXCEPT !.seller = doc.seller, !.item = doc.item, !.amount = doc.amount,
                         !.currency = doc.currency, !.transferGroup = doc.transferGroup,
                         !.reason = doc.reason]]
       ELSE Append(rows, [id |-> id, seller |-> doc.seller, item |-> doc.item,
                          amount |-> doc.amount, currency |-> doc.currency,
                          paymentIntentId |-> doc.paymentIntentId,
                          transferGroup |-> doc.transferGroup, reason |-> doc.reason,
                          expiresAt |-> now + Days180, status |-> "queued"])

\* a delete that removes nothing
KeepRowsOfPI(rows, pi) == rows

\* PendingTransfer.deleteOne({ paymentIntentId: pi })
DeleteByPI(rows, pi) ==
  IF RowsOfPI(rows, pi) = {} THEN rows ELSE RemoveAt(rows, FirstOf(RowsOfPI(rows, pi)))

\* a delete by _id that removes nothing
KeepRowsById(rows, id) == rows

\* PendingTransfer.deleteOne({ _id: id })
DeleteById(rows, id) ==
  LET hit == {k \in DOMAIN rows : rows[k].id = id}
  IN IF hit = {} THEN rows ELSE RemoveAt(rows, FirstOf(hit))

\* a sessionId index that is not unique
TokenNeverRejected(toks, sid) == FALSE

\* the unique index on DownloadToken.sessionId rejects a second document
TokenInsertRejected(toks, sid) == \E t \in toks : t.sessionId = sid

\* an eventId index that is not unique
EventNeverRejected(rows, e) == FALSE

\* an eventId index that lets a second document in
EventRejectedLate(rows, e) == rows[e] > 1

\* the unique index on ProcessedEvent.eventId rejects a second document
EventInsertRejected(rows, e) == rows[e] > 0

\* a transfer created without its transfer_group
NewTransferUngrouped(amount, currency, destination, group, pi, via) ==
  [amount |-> amount, currency |-> currency, destination |-> destination,
   transfer_group |-> "", pi |-> pi, via |-> via]

\* stripe.transfers.create(...) accepted by the processor; pi and via record
\* which charge and which code path the transfer was made for
NewTransfer(amount, currency, destination, group, pi, via) ==
  [amount |-> amount, currency |-> currency, destination |-> destination,
   transfer_group |-> group, pi |-> pi, via |-> via]

\* the number of transfers in bag B made for payment-intent pi
RECURSIVE CountIn(_, _, _)
CountIn(B, S, pi) ==
  IF S = {} THEN 0
  ELSE LET t == CHOOSE x \in S : TRUE
       IN (IF t.pi = pi THEN CopiesIn(t, B) ELSE 0) + CountIn(B, S \ {t}, pi)

TransfersFor(pi) == CountIn(transfers, BagToSet(transfers), pi)

----------------------------------------------------------------------------
(* Stripe events *)

SettleTypes == {Completed, AsyncSucceeded}

\* the events Stripe has emitted for session s
Emitted(s) ==
  LET st == sessions[s].status
  IN IF st = "paid" THEN {Completed}
     ELSE IF st = "processing" THEN {Completed}
     ELSE IF st = "async_paid" THEN {Completed, AsyncSucceeded}
     ELSE IF st = "async_failed" THEN {Completed, AsyncFailed}
     ELSE {}

\* a handler that takes every event's session as paid
EventAlwaysPaid(type, s) == TRUE

\* payment_status = 'paid' in the session object carried by the event
EventPaid(type, s) ==
  type = AsyncSucceeded \/ (type = Completed /\ sessions[s].status = "paid")

\* payment_status = 'paid' of the session as retrieved now
SessionPaid(s) == sessions[s].status \in {"paid", "async_paid"}

----------------------------------------------------------------------------
(* Initial state: the server has started, users have logged in and items   *)
(* are uploaded; nobody has onboarded and nothing has been sold.           *)

WhIdle == [pc |-> "idle", type |-> Completed, sid |-> 1, paid |-> FALSE, resp |-> "none",
           sellerAcct |-> NoAcct, canTransfer |-> FALSE, acctSeen |-> "none",
           transferCall |-> "none", marked |-> "none", sigOK |-> TRUE]

SpIdle == [pc |-> "idle", sid |-> 1, item |-> "i1", resp |-> "none"]

\* cached is the flag of the user document as loaded
RdIdle == [pc |-> "idle", user |-> "u1", acct |-> NoAcct, cached |-> FALSE, enabled |-> FALSE,
           queue |-> <<>>, resp |-> "none"]

\* token is the bearer token the request carried (line 810)
AdIdle == [pc |-> "idle", queue |-> <<>>, sellerAcct |-> NoAcct, results |-> <<>>,
           resp |-> "none", token |-> ""]

\* granted keeps the token strings that requests so far were granted access with
DlIdle == [pc |-> "idle", token |-> 1, item |-> "i1", resp |-> "none", granted |-> {}]

\* paymentIntentData without application_fee_amount
NoFee == -1

CoIdle == [item |-> "none", retrieved |-> FALSE, destination |-> NoAcct,
           application_fee_amount |-> NoFee]

RsIdle == [pc |-> "idle", user |-> "u1", hadAccount |-> FALSE, hadFlag |-> FALSE]

\* cached is the flag of the user document as loaded, live the value the
\* processor returned, failed whether the retrieval threw
SyIdle == [pc |-> "idle", user |-> "u1", acct |-> NoAcct, cached |-> FALSE, live |-> FALSE,
           failed |-> FALSE, hasAccount |-> FALSE, payoutsEnabled |-> FALSE]

InitWorld ==
  /\ users = [u \in Users |-> [stripeAccountId |-> NoAcct, payoutsEnabled |-> FALSE]]
  /\ accounts = [a \in AcctIds |-> [created |-> FALSE, payouts_enabled |-> FALSE,
                                    transfers |-> "inactive"]]
  /\ sessions = [s \in SessionIds |-> NoSession]
  /\ processedEvents = [e \in EventIds |-> 0]
  /\ tokens = {}
  /\ pending = <<>>
  /\ transfers = EmptyBag
  /\ wh = [h \in Handlers |-> WhIdle]
  /\ sp = SpIdle
  /\ rd = RdIdle
  /\ ad = AdIdle
  /\ dl = DlIdle
  /\ sy = SyIdle
  /\ rs = RsIdle
  /\ co = CoIdle
  /\ now = 0
  /\ nRequests = 0

FeeNone == [computed |-> FALSE, fee |-> 0, sellerAmount |-> 0,
            quoted |-> FALSE, platformFee |-> 0]

Init ==
  /\ InitWorld
  /\ env \in [PLATFORM_FEE_PERCENT : EnvFeeValues, STRIPE_WEBHOOK_SECRET : {TRUE},
              USE_STRIPE_CONNECT : {TRUE}, ADMIN_TOKEN : {"secret"}]
  /\ feeIn = 0
  /\ feeOut = FeeNone

SeqIds(q) == {q[k].id : k \in DOMAIN q}

\* a new ObjectId: one that no stored row and no snapshot of a drain carries
FreshRowId ==
  LET used == SeqIds(pending) \cup SeqIds(rd.queue) \cup SeqIds(ad.queue) \cup SeqIds(ad.results)
  IN CHOOSE n \in 1..(Cardinality(used) + 1) : n \notin used /\ \A m \in 1..(n - 1) : m \in used

\* a new nanoid(32): one that no stored token carries and no request was
\* granted access with
FreshToken ==
  LET used == {t.token : t \in tokens} \cup dl.granted
  IN CHOOSE n \in 1..(Cardinality(used) + 1) : n \notin used /\ \A m \in 1..(n - 1) : m \in used

----------------------------------------------------------------------------
(* POST /webhooks/stripe *)

World  == <<env, users, accounts, sessions>>
NotWh  == <<sp, rd, ad, dl, sy, rs, co, now>>
NotSp  == <<wh, rd, ad, dl, sy, rs, co, now>>
NotRd  == <<wh, sp, ad, dl, sy, rs, co, now>>
NotAd  == <<wh, sp, rd, dl, sy, rs, co, now>>
NotDl  == <<wh, sp, rd, ad, sy, rs, co>>
NotSy  == <<wh, sp, rd, ad, dl, rs, co, now>>
NotRs  == <<wh, sp, rd, ad, dl, sy, co, now>>
NotCo  == <<wh, sp, rd, ad, dl, sy, rs, now, nRequests>>
Server == <<wh, sp, rd, ad, dl, sy, rs, co, now, nRequests>>

\* an enqueue of the price instead of the seller's share
MarkPendingGross(h, reason) ==
  LET s == wh[h].sid
      i == sessions[s].item
      doc == [seller |-> ItemDb[i].ownerUser, item |-> i, amount |-> ItemDb[i].price,
              currency |-> ItemDb[i].currency, paymentIntentId |-> s,
              transferGroup |-> TransferGroup(i), reason |-> reason]
  IN pending' = UpsertPending(pending, FreshRowId, doc)

\* markPending(reason): upsert keyed by the payment-intent id
MarkPending(h, reason) ==
  LET s == wh[h].sid
      i == sessions[s].item
      doc == [seller |-> ItemDb[i].ownerUser, item |-> i, amount |-> SellerAmount(i),
              currency |-> ItemDb[i].currency, paymentIntentId |-> s,
              transferGroup |-> TransferGroup(i), reason |-> reason]
  IN pending' = UpsertPending(pending, FreshRowId, doc)

\* the response is sent: only the event and the answer remain of the request
WhDone(h, resp) == [WhIdle EXCEPT !.pc = "done", !.type = wh[h].type, !.sid = wh[h].sid,
                                  !.paid = wh[h].paid, !.resp = resp, !.sigOK = wh[h].sigOK]

\* a handler that lets an unverified request through
WhVerifyLax(sigOK) == IF ~env.STRIPE_WEBHOOK_SECRET THEN "500" ELSE "ok"

\* the configuration check and stripe.webhooks.constructEvent: the response
\* that ends the request, or "ok"
WhVerify(sigOK) ==
  IF ~env.STRIPE_WEBHOOK_SECRET THEN "500" ELSE IF ~sigOK THEN "400" ELSE "ok"

\* the request arrives: configuration check, stripe.webhooks.constructEvent,
\* then ProcessedEvent.create({ eventId }), whose rejection is answered as a
\* duplicate
WhReceive(h, type, s, sigOK) ==
  /\ wh[h].pc = "idle"
  /\ nRequests < MaxRequests
  /\ nRequests' = nRequests + 1
  /\ \A g \in Handlers : g < h => wh[g].pc # "idle"
  /\ IF sigOK THEN type \in Emitted(s) ELSE type = Completed /\ s = 1
  /\ LET e  == <<type, s>>
         me == [WhIdle EXCEPT !.type = type, !.sid = s, !.paid = EventPaid(type, s),
                              !.sigOK = sigOK]
     IN IF WhVerify(sigOK) # "ok"
          THEN /\ wh' = [wh EXCEPT ![h] = [me EXCEPT !.pc = "done", !.resp = WhVerify(sigOK)]]
               /\ UNCHANGED processedEvents
          ELSE IF EventInsertRejected(processedEvents, e)
          THEN /\ wh' = [wh EXCEPT ![h] = [me EXCEPT !.pc = "done", !.resp = "200dup"]]
               /\ UNCHANGED processedEvents
          ELSE /\ processedEvents' = [processedEvents EXCEPT ![e] = @ + 1]
               /\ wh' = [wh EXCEPT ![h] =
                           IF type \notin SettleTypes THEN [me EXCEPT !.pc = "done", !.resp = "200"]
                           ELSE IF me.paid THEN [me EXCEPT !.pc = "findToken"]
                           ELSE [me EXCEPT !.pc = "payout"]]
  /\ UNCHANGED <<World, tokens, pending, transfers, NotWh, feeIn, feeOut>>

\* the request arrives with a valid signature and ProcessedEvent.create throws
\* for a reason other than the unique index (the database cannot be reached):
\* catch (dup) answers as for a duplicate
WhReceiveUnrecorded(h, type, s) ==
  /\ wh[h].pc = "idle"
  /\ nRequests < MaxRequests
  /\ nRequests' = nRequests + 1
  /\ \A g \in Handlers : g < h => wh[g].pc # "idle"
  /\ type \in Emitted(s)
  /\ WhVerify(TRUE) = "ok"
  /\ wh' = [wh EXCEPT ![h] = [WhIdle EXCEPT !.type = type, !.sid = s,
                                           !.paid = EventPaid(type, s),
                                           !.pc = "done", !.resp = "200dup"]]
  /\ UNCHANGED <<World, processedEvents, tokens, pending, transfers, NotWh, feeIn, feeOut>>

\* DownloadToken.findOne({ sessionId })
WhFindToken(h) ==
  /\ wh[h].pc = "findToken"
  /\ wh' = [wh EXCEPT ![h].pc =
              IF \E t \in tokens : t.sessionId = wh[h].sid THEN "payout" ELSE "createToken"]
  /\ UNCHANGED <<World, processedEvents, tokens, pending, transfers, NotWh,
                 nRequests, feeIn, feeOut>>

\* Item.findById, then DownloadToken.create; a rejected insert reaches the outer catch
WhCreateToken(h) ==
  /\ wh[h].pc = "createToken"
  /\ IF TokenInsertRejected(tokens, wh[h].sid)
       THEN /\ wh' = [wh EXCEPT ![h] = WhDone(h, "500")]
            /\ UNCHANGED tokens
       ELSE /\ tokens' = tokens \cup {[token |-> FreshToken, item |-> sessions[wh[h].sid].item,
                                       sessionId |-> wh[h].sid, usedOnce |-> FALSE,
                                       expiresAt |-> now + TokenTtlMin]}
            /\ wh' = [wh EXCEPT ![h].pc = "payout"]
  /\ UNCHANGED <<World, processedEvents, pending, transfers, NotWh,
                 nRequests, feeIn, feeOut>>

\* a handler that takes every charge for one without destination routing
NeedTransferAlways(s) == TRUE

\* const needTransfer = !pi.transfer_data
NeedTransfer(s) == sessions[s].dest = NoAcct

\* the answer of the catch (tErr) block once it has nothing to write
WhCaught(h, call, errPI) ==
  IF errPI THEN [wh[h] EXCEPT !.pc = "catch", !.transferCall = call]
  ELSE [WhDone(h, "200") EXCEPT !.transferCall = call]

\* the payout step up to the transfer decision: stripe.paymentIntents.retrieve,
\* Item.findById, User.findById, the fee split, the gating conditions and,
\* when the first two pass, stripe.accounts.retrieve
WhPayout(h, piOK, acctOK, errPI) ==
  /\ wh[h].pc = "payout"
  /\ LET s     == wh[h].sid
         i     == sessions[s].item
         owner == ItemDb[i].ownerUser
         a     == IF owner = NoUser THEN NoAcct ELSE users[owner].stripeAccountId
     IN IF ~piOK
          THEN /\ wh' = [wh EXCEPT ![h] = WhCaught(h, "retrieveThrew", errPI)]
               /\ acctOK
               /\ UNCHANGED pending
          ELSE /\ ~errPI
               /\ IF ~NeedTransfer(s) \/ owner = NoUser
                    THEN /\ wh' = [wh EXCEPT ![h] = WhDone(h, "200")]
                         /\ acctOK
                         /\ UNCHANGED pending
                    ELSE IF a = NoAcct
                    THEN /\ MarkPending(h, "seller_no_stripe_account")
                         /\ wh' = [wh EXCEPT ![h] = [WhDone(h, "200") EXCEPT
                                                       !.marked = "seller_no_stripe_account"]]
                         /\ acctOK
                    ELSE IF SellerAmount(i) <= 0
                    THEN /\ MarkPending(h, "non_positive_amount")
                         /\ wh' = [wh EXCEPT ![h] = [WhDone(h, "200") EXCEPT
                                                       !.marked = "non_positive_amount"]]
                         /\ acctOK
                    ELSE /\ wh' = [wh EXCEPT ![h] =
                                     [wh[h] EXCEPT !.pc = "transfer", !.sellerAcct = a,
                                        !.canTransfer = IF acctOK THEN accounts[a].payouts_enabled
                                                        ELSE TRUE,
                                        !.acctSeen = IF ~acctOK THEN "error"
                                                     ELSE IF accounts[a].payouts_enabled
                                                       THEN "enabled" ELSE "disabled"]]
                         /\ UNCHANGED pending
  /\ UNCHANGED <<World, processedEvents, tokens, transfers, NotWh,
                 nRequests, feeIn, feeOut>>

\* stripe.transfers.create when canTransfer, else markPending('payouts_disabled')
WhTransfer(h, ok, errPI) ==
  /\ wh[h].pc = "transfer"
  /\ LET s == wh[h].sid
         i == sessions[s].item
     IN IF ~wh[h].canTransfer
          THEN /\ MarkPending(h, "payouts_disabled")
               /\ wh' = [wh EXCEPT ![h] = [WhDone(h, "200") EXCEPT
                                             !.marked = "payouts_disabled"]]
               /\ ok /\ ~errPI
               /\ UNCHANGED transfers
          ELSE IF ok
          THEN /\ transfers' = transfers (+) SetToBag({
                                 NewTransfer(SellerAmount(i), ItemDb[i].currency,
                                             wh[h].sellerAcct, TransferGroup(i), s, "webhook")})
               /\ wh' = [wh EXCEPT ![h] = [wh[h] EXCEPT !.pc = "deletePending",
                                                        !.transferCall = "ok"]]
               /\ ~errPI
               /\ UNCHANGED pending
          ELSE /\ wh' = [wh EXCEPT ![h] = WhCaught(h, "threw", errPI)]
               /\ UNCHANGED <<pending, transfers>>
  /\ UNCHANGED <<World, processedEvents, tokens, NotWh, nRequests, feeIn, feeOut>>

\* PendingTransfer.deleteOne({ paymentIntentId }) after a successful transfer
WhDeletePending(h) ==
  /\ wh[h].pc = "deletePending"
  /\ pending' = DeleteByPI(pending, wh[h].sid)
  /\ wh' = [wh EXCEPT ![h] = [WhDone(h, "200") EXCEPT !.transferCall = "ok"]]
  /\ UNCHANGED <<World, processedEvents, tokens, transfers, NotWh,
                 nRequests, feeIn, feeOut>>

\* catch (tErr) when the error object carries payment_intent.id: the upsert
\* with reason 'exception'
WhCatch(h) ==
  /\ wh[h].pc = "catch"
  /\ MarkPending(h, "exception")
  /\ wh' = [wh EXCEPT ![h] = [WhDone(h, "200") EXCEPT !.transferCall = wh[h].transferCall,
                                                       !.marked = "exception"]]
  /\ UNCHANGED <<World, processedEvents, tokens, transfers, NotWh,
                 nRequests, feeIn, feeOut>>

\* the response has been sent; the handler instance is gone
WhFinish(h) ==
  /\ wh[h].pc = "done"
  /\ wh' = [wh EXCEPT ![h] = WhIdle]
  /\ UNCHANGED <<World, processedEvents, tokens, pending, transfers, NotWh,
                 nRequests, feeIn, feeOut>>

----------------------------------------------------------------------------
(* GET /success *)

\* a success page that accepts a paid session whatever item it was for
SuccessPaidAnyItem(s, i) == SessionPaid(s)

\* session.payment_status === 'paid' && session.metadata?.itemId === String(item._id)
SuccessPaid(s, i) == SessionPaid(s) /\ sessions[s].item = i

\* Item.findOne({ slug }), stripe.checkout.sessions.retrieve, the paid check,
\* DownloadToken.findOne({ sessionId })
SpStart(s, i) ==
  /\ sp.pc = "idle"
  /\ nRequests < MaxRequests
  /\ nRequests' = nRequests + 1
  /\ sessions[s].status # "absent"
  /\ LET me == [SpIdle EXCEPT !.sid = s, !.item = i]
     IN sp' = IF ~SuccessPaid(s, i)
                THEN [me EXCEPT !.pc = "done", !.resp = "403"]
              ELSE IF \E t \in tokens : t.sessionId = s
                THEN [me EXCEPT !.pc = "done", !.resp = "200"]
              ELSE [me EXCEPT !.pc = "createToken"]
  /\ UNCHANGED <<World, processedEvents, tokens, pending, transfers, NotSp,
                 feeIn, feeOut>>

\* the fallback DownloadToken.create; a rejected insert reaches the catch (500)
SpCreateToken ==
  /\ sp.pc = "createToken"
  /\ IF TokenInsertRejected(tokens, sp.sid)
       THEN /\ sp' = [sp EXCEPT !.pc = "done", !.resp = "500"]
            /\ UNCHANGED tokens
       ELSE /\ tokens' = tokens \cup {[token |-> FreshToken, item |-> sp.item,
                                       sessionId |-> sp.sid, usedOnce |-> FALSE,
                                       expiresAt |-> now + TokenTtlMin]}
            /\ sp' = [sp EXCEPT !.pc = "done", !.resp = "200"]
  /\ UNCHANGED <<World, processedEvents, pending, transfers, NotSp,
                 nRequests, feeIn, feeOut>>

SpFinish ==
  /\ sp.pc = "done"
  /\ sp' = SpIdle
  /\ UNCHANGED <<World, processedEvents, tokens, pending, transfers, NotSp,
                 nRequests, feeIn, feeOut>>

----------------------------------------------------------------------------
(* GET /download/:token *)

\* a redemption that answers not-found for an expired token
RedeemExpiredNotFound(docs, t) ==
  IF docs = {} THEN "404"
  ELSE LET doc == CHOOSE d \in docs : TRUE
       IN IF doc.usedOnce THEN "410used"
          ELSE IF doc.expiresAt < t THEN "404"
          ELSE "ok"

\* a redemption that never looks at the expiry
RedeemIgnoringExpiry(docs, t) ==
  IF docs = {} THEN "404"
  ELSE IF (CHOOSE d \in docs : TRUE).usedOnce THEN "410used"
  ELSE "ok"

\* the checks on the document DownloadToken.findOne({ token }) returned, read
\* at time t: the response that ends the request, or "ok"
Redeem(docs, t) ==
  IF docs = {} THEN "404"
  ELSE LET doc == CHOOSE d \in docs : TRUE
       IN IF doc.usedOnce THEN "410used"
          ELSE IF doc.expiresAt < t THEN "410expired"
          ELSE "ok"

\* DownloadToken.findOne({ token }) and the checks on the document
DlStart(tok) ==
  /\ dl.pc = "idle"
  /\ nRequests < MaxRequests
  /\ nRequests' = nRequests + 1
  /\ LET docs == {d \in tokens : d.token = tok}
         r    == Redeem(docs, now)
         me   == [dl EXCEPT !.token = tok]
     IN dl' = IF r # "ok" THEN [me EXCEPT !.pc = "done", !.resp = r]
              ELSE [me EXCEPT !.pc = "serve", !.item = (CHOOSE d \in docs : TRUE).item]
  /\ UNCHANGED <<World, processedEvents, tokens, pending, transfers, NotDl, now,
                 feeIn, feeOut>>

\* Item.findById(doc.item), then the local file is streamed or the signed
\* URL is rendered; 404 when the asset is not there
DlServe(assetOK) ==
  /\ dl.pc = "serve"
  /\ dl' = IF assetOK
             THEN [dl EXCEPT !.pc = "done", !.resp = "200", !.granted = @ \cup {dl.token}]
           ELSE [dl EXCEPT !.pc = "done", !.resp = "404"]
  /\ UNCHANGED <<World, processedEvents, tokens, pending, transfers, NotDl, now,
                 nRequests, feeIn, feeOut>>

DlFinish ==
  /\ dl.pc = "done"
  /\ dl' = [DlIdle EXCEPT !.granted = dl.granted]
  /\ UNCHANGED <<World, processedEvents, tokens, pending, transfers, NotDl, now,
                 nRequests, feeIn, feeOut>>

----------------------------------------------------------------------------
(* getConnectStatus(user) *)

\* the value returned once the account has been retrieved, or "save" when the
\* flag has to be written first
SyRetrieved(y, live) ==
  IF y.cached # live
    THEN [y EXCEPT !.pc = "save", !.live = live]
  ELSE [y EXCEPT !.pc = "done", !.live = live, !.payoutsEnabled = live]

\* a failed retrieval reported as payouts not enabled
SyFailedAsDisabled(y) == [y EXCEPT !.pc = "done", !.failed = TRUE, !.payoutsEnabled = FALSE]

\* a failed retrieval: the value loaded from the user document is returned
SyFailed(y) == [y EXCEPT !.pc = "done", !.failed = TRUE, !.payoutsEnabled = y.cached]

\* const u = await User.findById(user._id)
SyStart(u) ==
  /\ sy.pc = "idle"
  /\ nRequests < MaxRequests
  /\ nRequests' = nRequests + 1
  /\ LET a  == users[u].stripeAccountId
         me == [SyIdle EXCEPT !.user = u, !.acct = a, !.cached = users[u].payoutsEnabled,
                              !.hasAccount = (a # NoAcct)]
     IN sy' = IF a = NoAcct
                THEN [me EXCEPT !.pc = "done", !.payoutsEnabled = me.cached]
              ELSE [me EXCEPT !.pc = "retrieve"]
  /\ UNCHANGED <<World, processedEvents, tokens, pending, transfers, NotSy,
                 feeIn, feeOut>>

\* stripe.accounts.retrieve(u.stripeAccountId) and the comparison with the
\* loaded flag
SyRetrieve(ok) ==
  /\ sy.pc = "retrieve"
  /\ sy' = IF ok THEN SyRetrieved(sy, accounts[sy.acct].payouts_enabled) ELSE SyFailed(sy)
  /\ UNCHANGED <<World, processedEvents, tokens, pending, transfers, NotSy,
                 nRequests, feeIn, feeOut>>

\* u.payoutsEnabled = payoutsEnabled; await u.save()
SySave ==
  /\ sy.pc = "save"
  /\ users' = [users EXCEPT ![sy.user].payoutsEnabled = sy.live]
  /\ sy' = [sy EXCEPT !.pc = "done", !.payoutsEnabled = sy.live]
  /\ UNCHANGED <<env, accounts, sessions, processedEvents, tokens, pending, transfers,
                 NotSy, nRequests, feeIn, feeOut>>

SyFinish ==
  /\ sy.pc = "done"
  /\ sy' = SyIdle
  /\ UNCHANGED <<World, processedEvents, tokens, pending, transfers, NotSy,
                 nRequests, feeIn, feeOut>>

----------------------------------------------------------------------------
(* POST /connect/reset *)

\* const u = await User.findById(req.user._id)
RsStart(u) ==
  /\ rs.pc = "idle"
  /\ nRequests < MaxRequests
  /\ nRequests' = nRequests + 1
  /\ rs' = [RsIdle EXCEPT !.pc = "save", !.user = u,
                          !.hadAccount = (users[u].stripeAccountId # NoAcct),
                          !.hadFlag = users[u].payoutsEnabled]
  /\ UNCHANGED <<World, processedEvents, tokens, pending, transfers, NotRs,
                 feeIn, feeOut>>

\* u.stripeAccountId = undefined; u.payoutsEnabled = false; await u.save():
\* the save writes the paths whose value the assignments changed
RsSave ==
  /\ rs.pc = "save"
  /\ users' = [users EXCEPT
                 ![rs.user].stripeAccountId = IF rs.hadAccount THEN NoAcct ELSE @,
                 ![rs.user].payoutsEnabled = IF rs.hadFlag THEN FALSE ELSE @]
  /\ rs' = RsIdle
  /\ UNCHANGED <<env, accounts, sessions, processedEvents, tokens, pending, transfers,
                 NotRs, nRequests, feeIn, feeOut>>

ConnectReset ==
  \/ \E u \in Users : RsStart(u)
  \/ RsSave

----------------------------------------------------------------------------
(* GET /connect/return: status refresh and return-flow drain *)

\* User.findById(req.user._id), stripe.accounts.retrieve(user.stripeAccountId)
\* a return that takes the flag stored on the user document for the live one
RdStartedFromStoredFlag(u, ok) ==
  LET a == users[u].stripeAccountId
  IN IF a = NoAcct THEN [RdIdle EXCEPT !.pc = "done", !.user = u, !.resp = "400"]
     ELSE IF ~ok THEN [RdIdle EXCEPT !.pc = "done", !.user = u, !.resp = "500"]
     ELSE [RdIdle EXCEPT !.pc = "save", !.user = u, !.acct = a,
                         !.cached = users[u].payoutsEnabled,
                         !.enabled = users[u].payoutsEnabled]

RdStarted(u, ok) ==
  LET a == users[u].stripeAccountId
  IN IF a = NoAcct THEN [RdIdle EXCEPT !.pc = "done", !.user = u, !.resp = "400"]
     ELSE IF ~ok THEN [RdIdle EXCEPT !.pc = "done", !.user = u, !.resp = "500"]
     ELSE [RdIdle EXCEPT !.pc = "save", !.user = u, !.acct = a,
                         !.cached = users[u].payoutsEnabled,
                         !.enabled = accounts[a].payouts_enabled]

RdStart(u, ok) ==
  /\ rd.pc = "idle"
  /\ nRequests < MaxRequests
  /\ nRequests' = nRequests + 1
  /\ users[u].stripeAccountId = NoAcct => ok
  /\ rd' = RdStarted(u, ok)
  /\ UNCHANGED <<World, processedEvents, tokens, pending, transfers, NotRd,
                 feeIn, feeOut>>

\* the same request, whenever the seller comes back, however often
RdInvoke(u, ok) ==
  /\ rd.pc = "idle"
  /\ users[u].stripeAccountId = NoAcct => ok
  /\ rd' = RdStarted(u, ok)
  /\ UNCHANGED <<World, processedEvents, tokens, pending, transfers, NotRd,
                 nRequests, feeIn, feeOut>>

\* user.payoutsEnabled = payoutsEnabled; user.save(): the document is written
\* only when the assignment changed the flag it was loaded with
RdSave ==
  /\ rd.pc = "save"
  /\ users' = IF rd.enabled # rd.cached
               THEN [users EXCEPT ![rd.user].payoutsEnabled = rd.enabled]
             ELSE users
  /\ rd' = IF rd.enabled THEN [rd EXCEPT !.pc = "find", !.cached = FALSE]
           ELSE [rd EXCEPT !.pc = "done", !.resp = "200", !.cached = FALSE]
  /\ UNCHANGED <<env, accounts, sessions, processedEvents, tokens, pending, transfers,
                 NotRd, nRequests, feeIn, feeOut>>

\* a find without the seller filter
RowsOfAnySeller(rows, u) == rows

\* the rows matching { seller: user._id }, in natural order
RowsOfSeller(rows, u) == SelectSeq(rows, LAMBDA p : p.seller = u)

\* PendingTransfer.find({ seller: user._id }).lean()
RdFind ==
  /\ rd.pc = "find"
  /\ LET q == RowsOfSeller(pending, rd.user)
     IN rd' = IF q = <<>> THEN [rd EXCEPT !.pc = "done", !.resp = "200"]
              ELSE [rd EXCEPT !.pc = "send", !.queue = q]
  /\ UNCHANGED <<World, processedEvents, tokens, pending, transfers, NotRd,
                 nRequests, feeIn, feeOut>>

\* a drain that gives up at the first row it has dealt with
RdAbort(r) == [r EXCEPT !.pc = "done", !.queue = <<>>, !.resp = "500"]

\* on to the next row of the snapshot, or the response after the last one
RdNext(r) ==
  IF Len(r.queue) <= 1 THEN [r EXCEPT !.pc = "done", !.queue = <<>>, !.resp = "200"]
  ELSE [r EXCEPT !.pc = "send", !.queue = Tail(r.queue)]

\* stripe.transfers.create for the row at hand; a failure leaves the row queued
RdSend(ok) ==
  /\ rd.pc = "send"
  /\ LET p == Head(rd.queue)
     IN IF ok
          THEN /\ transfers' = transfers (+) SetToBag({
                                 NewTransfer(p.amount, p.currency, rd.acct, p.transferGroup,
                                             p.paymentIntentId, "return")})
               /\ rd' = [rd EXCEPT !.pc = "delete"]
          ELSE /\ rd' = RdNext(rd)
               /\ UNCHANGED transfers
  /\ UNCHANGED <<World, processedEvents, tokens, pending, NotRd,
                 nRequests, feeIn, feeOut>>

\* PendingTransfer.deleteOne({ _id: p._id })
RdDelete ==
  /\ rd.pc = "delete"
  /\ pending' = DeleteById(pending, Head(rd.queue).id)
  /\ rd' = RdNext(rd)
  /\ UNCHANGED <<World, processedEvents, tokens, transfers, NotRd,
                 nRequests, feeIn, feeOut>>

RdFinish ==
  /\ rd.pc = "done"
  /\ rd' = RdIdle
  /\ UNCHANGED <<World, processedEvents, tokens, pending, transfers, NotRd,
                 nRequests, feeIn, feeOut>>

----------------------------------------------------------------------------
(* POST /admin/retry-pending: administrative drain *)

\* results.push(...) and on to the next row, or the response after the last one
AdNext(a, status) ==
  LET res == Append(a.results, [id |-> Head(a.queue).id, status |-> status])
  IN IF Len(a.queue) <= 1
       THEN [a EXCEPT !.pc = "done", !.queue = <<>>, !.results = res, !.resp = "200",
                      !.sellerAcct = NoAcct]
       ELSE [a EXCEPT !.pc = "seller", !.queue = Tail(a.queue), !.results = res,
                      !.sellerAcct = NoAcct]

\* the token every request passes when no secret is looked for
AdminAuthorizedByEquality(token) == token = env.ADMIN_TOKEN

\* !process.env.ADMIN_TOKEN || token !== process.env.ADMIN_TOKEN, negated
AdminAuthorized(token) == env.ADMIN_TOKEN # "" /\ token = env.ADMIN_TOKEN

\* the bearer-token check, then PendingTransfer.find({}).lean()
AdStarted(token) ==
  IF ~AdminAuthorized(token)
    THEN [AdIdle EXCEPT !.pc = "done", !.resp = "403", !.token = token]
  ELSE IF pending = <<>>
    THEN [AdIdle EXCEPT !.pc = "done", !.resp = "200", !.token = token]
  ELSE [AdIdle EXCEPT !.pc = "seller", !.queue = pending, !.token = token]

AdStart(token) ==
  /\ ad.pc = "idle"
  /\ nRequests < MaxRequests
  /\ nRequests' = nRequests + 1
  /\ ad' = AdStarted(token)
  /\ UNCHANGED <<World, processedEvents, tokens, pending, transfers, NotAd,
                 feeIn, feeOut>>

\* the same request, whenever the operator sends it, however often
AdInvoke(token) ==
  /\ ad.pc = "idle"
  /\ ad' = AdStarted(token)
  /\ UNCHANGED <<World, processedEvents, tokens, pending, transfers, NotAd,
                 nRequests, feeIn, feeOut>>

\* User.findById(p.seller), then stripe.accounts.retrieve; a failed retrieval
\* counts as not enabled
AdSeller(ok) ==
  /\ ad.pc = "seller"
  /\ LET u == Head(ad.queue).seller
         a == IF u = NoUser THEN NoAcct ELSE users[u].stripeAccountId
     IN /\ a = NoAcct => ok
        /\ ad' = IF a = NoAcct THEN AdNext(ad, "skip_no_account")
                 ELSE IF ok /\ accounts[a].payouts_enabled
                   THEN [ad EXCEPT !.pc = "send", !.sellerAcct = a]
                 ELSE AdNext(ad, "skip_payouts_disabled")
  /\ UNCHANGED <<World, processedEvents, tokens, pending, transfers, NotAd,
                 nRequests, feeIn, feeOut>>

\* stripe.transfers.create for the row at hand
AdSend(ok) ==
  /\ ad.pc = "send"
  /\ LET p == Head(ad.queue)
     IN IF ok
          THEN /\ transfers' = transfers (+) SetToBag({
                                 NewTransfer(p.amount, p.currency, ad.sellerAcct,
                                             p.transferGroup, p.paymentIntentId, "admin")})
               /\ ad' = [ad EXCEPT !.pc = "delete"]
          ELSE /\ ad' = AdNext(ad, "error")
               /\ UNCHANGED transfers
  /\ UNCHANGED <<World, processedEvents, tokens, pending, NotAd,
                 nRequests, feeIn, feeOut>>

\* PendingTransfer.deleteOne({ _id: p._id })
AdDelete ==
  /\ ad.pc = "delete"
  /\ pending' = DeleteById(pending, Head(ad.queue).id)
  /\ ad' = AdNext(ad, "transferred")
  /\ UNCHANGED <<World, processedEvents, tokens, transfers, NotAd,
                 nRequests, feeIn, feeOut>>

AdFinish ==
  /\ ad.pc = "done"
  /\ ad' = AdIdle
  /\ UNCHANGED <<World, processedEvents, tokens, pending, transfers, NotAd,
                 nRequests, feeIn, feeOut>>

----------------------------------------------------------------------------
(* Sellers, buyers and the processor *)

\* GET /connect/onboard for a user without a usable account: accounts.create
ConnectOnboard(u) ==
  /\ users[u].stripeAccountId = NoAcct
  /\ accounts' = [accounts EXCEPT ![AcctOf(u)] =
                    [created |-> TRUE, payouts_enabled |-> FALSE, transfers |-> "inactive"]]
  /\ users' = [users EXCEPT ![u].stripeAccountId = AcctOf(u)]
  /\ UNCHANGED <<env, sessions, processedEvents, tokens, pending, transfers,
                 Server, feeIn, feeOut>>

\* the states the processor reports for a connected account
AccountStates == {[created |-> TRUE, payouts_enabled |-> FALSE, transfers |-> "inactive"],
                  [created |-> TRUE, payouts_enabled |-> TRUE, transfers |-> "active"]}

\* the processor changes the status of a connected account
AccountUpdated(a, st) ==
  /\ accounts[a].created
  /\ st \in AccountStates /\ st # accounts[a]
  /\ accounts' = [accounts EXCEPT ![a] = st]
  /\ UNCHANGED <<env, users, sessions, processedEvents, tokens, pending, transfers,
                 Server, feeIn, feeOut>>

\* a destination allowed by the flag stored on the seller's user document
CanUseDestinationCached(owner, acct, ok) == users[owner].payoutsEnabled

\* stripe.accounts.retrieve(seller.stripeAccountId) answered (ok) and
\* canUseDestination: transfersCap === 'active' && !!acc?.payouts_enabled
CanUseDestination(owner, acct, ok) ==
  ok /\ accounts[acct].transfers = "active" /\ accounts[acct].payouts_enabled

\* POST /checkout/:slug: the charge is a destination charge when the live
\* account has transfers active and payouts enabled
Checkout(s, i, ok) ==
  /\ sessions[s].status = "absent"
  /\ \A t \in SessionIds : t < s => sessions[t].status # "absent"
  /\ LET owner == ItemDb[i].ownerUser
         acct  == IF env.USE_STRIPE_CONNECT /\ owner # NoUser
                    THEN users[owner].stripeAccountId ELSE NoAcct
         dest  == IF acct # NoAcct /\ CanUseDestination(owner, acct, ok)
                    THEN acct ELSE NoAcct
     IN /\ acct = NoAcct => ok
        /\ sessions' = [sessions EXCEPT ![s] = [item |-> i, dest |-> dest, status |-> "open"]]
        /\ co' = [item |-> i, retrieved |-> (acct # NoAcct /\ ok), destination |-> dest,
                  application_fee_amount |->
                    IF dest # NoAcct THEN PlatformFee(ItemDb[i].price) ELSE NoFee]
  /\ UNCHANGED <<env, users, accounts, processedEvents, tokens, pending, transfers,
                 NotCo, feeIn, feeOut>>

\* the buyer pays: at once (card), or by a method that settles later
Pay(s, async) ==
  /\ sessions[s].status = "open"
  /\ sessions' = [sessions EXCEPT ![s].status = IF async THEN "processing" ELSE "paid"]
  /\ UNCHANGED <<env, users, accounts, processedEvents, tokens, pending, transfers,
                 Server, feeIn, feeOut>>

\* a payment that settles later succeeds or fails
AsyncSettles(s, ok) ==
  /\ sessions[s].status = "processing"
  /\ sessions' = [sessions EXCEPT ![s].status = IF ok THEN "async_paid" ELSE "async_failed"]
  /\ UNCHANGED <<env, users, accounts, processedEvents, tokens, pending, transfers,
                 Server, feeIn, feeOut>>

----------------------------------------------------------------------------

Webhook ==
  \E h \in Handlers :
    \/ \E type \in EventTypes, s \in SessionIds, sigOK \in BOOLEAN : WhReceive(h, type, s, sigOK)
    \/ WhFindToken(h)
    \/ WhCreateToken(h)
    \/ \E piOK \in BOOLEAN, acctOK \in BOOLEAN, errPI \in BOOLEAN : WhPayout(h, piOK, acctOK, errPI)
    \/ \E ok \in BOOLEAN, errPI \in BOOLEAN : WhTransfer(h, ok, errPI)
    \/ WhDeletePending(h)
    \/ WhCatch(h)
    \/ WhFinish(h)

Success ==
  \/ \E s \in SessionIds, i \in Items : SpStart(s, i)
  \/ SpCreateToken
  \/ SpFinish

ReturnDrain ==
  \/ \E u \in Users, ok \in BOOLEAN : RdStart(u, ok)
  \/ RdSave
  \/ RdFind
  \/ \E ok \in BOOLEAN : RdSend(ok)
  \/ RdDelete
  \/ RdFinish

AdminDrain ==
  \/ \E token \in BearerTokens : AdStart(token)
  \/ \E ok \in BOOLEAN : AdSeller(ok)
  \/ \E ok \in BOOLEAN : AdSend(ok)
  \/ AdDelete
  \/ AdFinish

Outside ==
  \/ \E u \in Users : ConnectOnboard(u)
  \/ \E a \in AcctIds, st \in AccountStates : AccountUpdated(a, st)
  \/ \E s \in SessionIds, i \in Items, ok \in BOOLEAN : Checkout(s, i, ok)
  \/ \E s \in SessionIds, async \in BOOLEAN : Pay(s, async)
  \/ \E s \in SessionIds, ok \in BOOLEAN : AsyncSettles(s, ok)

Next == Webhook \/ Success \/ ReturnDrain \/ AdminDrain \/ Outside

Spec == Init /\ [][Next]_vars

----------------------------------------------------------------------------
(* The fee split on its own: every price up to MaxPrice under every         *)
(* PLATFORM_FEE_PERCENT from 0 to MaxFeePercent                             *)

InitFee ==
  /\ InitWorld
  /\ env \in [PLATFORM_FEE_PERCENT : {EnvUnset} \cup (0..MaxFeePercent),
              STRIPE_WEBHOOK_SECRET : {TRUE},
              USE_STRIPE_CONNECT : {TRUE}, ADMIN_TOKEN : {"secret"}]
  /\ feeIn \in 0..MaxPrice
  /\ feeOut = FeeNone

\* const fee = Math.floor(item.price * (feePercent / 100));
\* const sellerAmount = item.price - fee;
ComputeFee ==
  /\ ~feeOut.computed
  /\ LET fee == Fee(feeIn, WebhookFeePercent)
     IN feeOut' = [feeOut EXCEPT !.computed = TRUE, !.fee = fee, !.sellerAmount = feeIn - fee]
  /\ UNCHANGED <<World, processedEvents, tokens, pending, transfers, Server, feeIn>>

\* const platformFee = Math.max(0, Math.floor(item.price * (PLATFORM_FEE_PERCENT / 100)));
ComputePlatformFee ==
  /\ ~feeOut.quoted
  /\ feeOut' = [feeOut EXCEPT !.quoted = TRUE, !.platformFee = PlatformFee(feeIn)]
  /\ UNCHANGED <<World, processedEvents, tokens, pending, transfers, Server, feeIn>>

NextFee == ComputeFee \/ ComputePlatformFee

SpecFee == InitFee /\ [][NextFee]_vars

----------------------------------------------------------------------------
(* One sale on its own: the seller has onboarded, the buyer has opened a    *)
(* checkout of an item of OddItems as a charge without destination routing. *)

InitSale ==
  /\ env \in [PLATFORM_FEE_PERCENT : SaleFeeValues, STRIPE_WEBHOOK_SECRET : {TRUE},
              USE_STRIPE_CONNECT : {TRUE}, ADMIN_TOKEN : {"secret"}]
  /\ users = [u \in Users |-> [stripeAccountId |-> AcctOf(u), payoutsEnabled |-> FALSE]]
  /\ accounts \in [AcctIds -> AccountStates]
  /\ sessions \in [SessionIds -> {[item |-> i, dest |-> NoAcct, status |-> "open"] :
                                    i \in OddItems}]
  /\ processedEvents = [e \in EventIds |-> 0]
  /\ tokens = {}
  /\ pending = <<>>
  /\ transfers = EmptyBag
  /\ wh = [h \in Handlers |-> WhIdle]
  /\ sp = SpIdle
  /\ rd = RdIdle
  /\ ad = AdIdle
  /\ dl = DlIdle
  /\ sy = SyIdle
  /\ rs = RsIdle
  /\ co = CoIdle
  /\ now = 0
  /\ nRequests = 0
  /\ feeIn = 0
  /\ feeOut = FeeNone

OutsideSale ==
  \/ \E a \in AcctIds, st \in AccountStates : AccountUpdated(a, st)
  \/ \E s \in SessionIds, async \in BOOLEAN : Pay(s, async)
  \/ \E s \in SessionIds, ok \in BOOLEAN : AsyncSettles(s, ok)

NextSale == Webhook \/ OutsideSale

SpecSale == InitSale /\ [][NextSale]_vars

----------------------------------------------------------------------------
(* The drains on their own: up to MaxRows sales of item i1 at 20 percent    *)
(* were paid while the seller could not be paid, each left its row queued.  *)

\* the row the webhook queued for payment-intent k
QueuedRow(k, reason) ==
  [id |-> k, seller |-> "u1", item |-> "i1", amount |-> 800, currency |-> "jpy",
   paymentIntentId |-> k, transferGroup |-> TransferGroup("i1"), reason |-> reason,
   expiresAt |-> Days180, status |-> "queued"]

InitDrain ==
  /\ env \in [PLATFORM_FEE_PERCENT : {20}, STRIPE_WEBHOOK_SECRET : {TRUE},
              USE_STRIPE_CONNECT : {TRUE}, ADMIN_TOKEN : AdminTokens]
  /\ \E onboarded \in BOOLEAN, n \in 0..MaxRows :
       /\ users = [u \in Users |->
                     [stripeAccountId |-> IF onboarded THEN AcctOf(u) ELSE NoAcct,
                      payoutsEnabled |-> FALSE]]
       /\ IF onboarded
            THEN accounts \in [AcctIds -> AccountStates]
            ELSE accounts = [a \in AcctIds |-> [created |-> FALSE, payouts_enabled |-> FALSE,
                                                transfers |-> "inactive"]]
       /\ pending = [k \in 1..n |->
                       QueuedRow(k, IF onboarded THEN "payouts_disabled"
                                    ELSE "seller_no_stripe_account")]
       /\ sessions = [s \in 1..n |-> [item |-> "i1", dest |-> NoAcct, status |-> "paid"]]
       /\ processedEvents = [e \in EventTypes \X (1..n) |-> IF e[1] = Completed THEN 1 ELSE 0]
       /\ tokens = {[token |-> s, item |-> "i1", sessionId |-> s, usedOnce |-> FALSE,
                       expiresAt |-> TokenTtlMin] : s \in 1..n}
  /\ transfers = EmptyBag
  /\ wh = [h \in Handlers |-> WhIdle]
  /\ sp = SpIdle
  /\ rd = RdIdle
  /\ ad = AdIdle
  /\ dl = DlIdle
  /\ sy = SyIdle
  /\ rs = RsIdle
  /\ co = CoIdle
  /\ now = 0
  /\ nRequests = 0
  /\ feeIn = 0
  /\ feeOut = FeeNone

OutsideDrain ==
  \/ \E u \in Users : ConnectOnboard(u)
  \/ \E a \in AcctIds, st \in AccountStates : AccountUpdated(a, st)

NextDrain == ReturnDrain \/ AdminDrain \/ OutsideDrain

SpecDrain == InitDrain /\ [][NextDrain]_vars

----------------------------------------------------------------------------
(* Downloads on their own: session 1 has been paid for item i1; the buyer    *)
(* comes back through the success page and follows download links while     *)
(* time passes.                                                             *)

InitDownload ==
  /\ env \in [PLATFORM_FEE_PERCENT : {20}, STRIPE_WEBHOOK_SECRET : {TRUE},
              USE_STRIPE_CONNECT : {TRUE}, ADMIN_TOKEN : {"secret"}]
  /\ users = [u \in Users |-> [stripeAccountId |-> AcctOf(u), payoutsEnabled |-> TRUE]]
  /\ accounts = [a \in AcctIds |-> [created |-> TRUE, payouts_enabled |-> TRUE,
                                    transfers |-> "active"]]
  /\ sessions = [s \in SessionIds |-> [item |-> "i1", dest |-> AcctOf("u1"), status |-> "paid"]]
  /\ processedEvents = [e \in EventIds |-> 0]
  /\ tokens = {}
  /\ pending = <<>>
  /\ transfers = EmptyBag
  /\ wh = [h \in Handlers |-> WhIdle]
  /\ sp = SpIdle
  /\ rd = RdIdle
  /\ ad = AdIdle
  /\ dl = DlIdle
  /\ sy = SyIdle
  /\ rs = RsIdle
  /\ co = CoIdle
  /\ now = 0
  /\ nRequests = 0
  /\ feeIn = 0
  /\ feeOut = FeeNone

\* time passes
Tick ==
  /\ \E t \in Instants : t > now /\ now' = t
  /\ UNCHANGED <<World, processedEvents, tokens, pending, transfers, NotDl, dl,
                 nRequests, feeIn, feeOut>>

\* the TTL index on DownloadToken.expiresAt (expireAfterSeconds: 0): the
\* database removes a document whose expiresAt has been reached, at a time
\* of its choosing
TtlPurge ==
  /\ \E d \in tokens : d.expiresAt <= now /\ tokens' = tokens \ {d}
  /\ UNCHANGED <<World, processedEvents, pending, transfers, Server, feeIn, feeOut>>

Download ==
  \/ \E tok \in TokenStrings : DlStart(tok)
  \/ \E assetOK \in BOOLEAN : DlServe(assetOK)
  \/ DlFinish

NextDownload == Success \/ Download \/ Tick \/ TtlPurge

SpecDownload == InitDownload /\ [][NextDownload]_vars

----------------------------------------------------------------------------
(* The backlog under drains that keep coming: the ledger of SpecDrain, an   *)
(* account that stays as it is, the seller returning and the operator       *)
(* retrying without end. Every continuation of a handler runs (weak         *)
(* fairness on its steps); the requests keep being made and the processor   *)
(* answers a retrieval and accepts a transfer if asked often enough (strong *)
(* fairness on the steps with ok = TRUE).                                   *)

NextBacklog ==
  \/ \E u \in Users, ok \in BOOLEAN : RdInvoke(u, ok)
  \/ RdSave
  \/ RdFind
  \/ \E ok \in BOOLEAN : RdSend(ok)
  \/ RdDelete
  \/ RdFinish
  \/ \E token \in BearerTokens : AdInvoke(token)
  \/ \E ok \in BOOLEAN : AdSeller(ok)
  \/ \E ok \in BOOLEAN : AdSend(ok)
  \/ AdDelete
  \/ AdFinish

FairBacklog ==
  /\ \A u \in Users : SF_vars(RdInvoke(u, TRUE))
  /\ WF_vars(RdSave) /\ WF_vars(RdFind) /\ SF_vars(RdSend(TRUE))
  /\ WF_vars(RdDelete) /\ WF_vars(RdFinish)
  /\ \A token \in BearerTokens : SF_vars(AdInvoke(token))
  /\ SF_vars(AdSeller(TRUE)) /\ SF_vars(AdSend(TRUE))
  /\ WF_vars(AdDelete) /\ WF_vars(AdFinish)

SpecBacklog == InitDrain /\ [][NextBacklog]_vars /\ FairBacklog

----------------------------------------------------------------------------
(* The return flow among rows of several sellers: the ledger holds rows of  *)
(* the returning seller u1 and of another seller, and u1 comes back from    *)
(* onboarding while the processor changes the account.                      *)

OtherSeller == "u2"

SellerRow(k, seller) ==
  [id |-> k, seller |-> seller, item |-> "i1", amount |-> 800, currency |-> "jpy",
   paymentIntentId |-> k, transferGroup |-> TransferGroup("i1"),
   reason |-> "payouts_disabled", expiresAt |-> Days180, status |-> "queued"]

InitReturn ==
  /\ env \in [PLATFORM_FEE_PERCENT : {20}, STRIPE_WEBHOOK_SECRET : {TRUE},
              USE_STRIPE_CONNECT : {TRUE}, ADMIN_TOKEN : {"secret"}]
  /\ \E onboarded \in BOOLEAN, n \in 0..MaxRows :
       /\ users = [u \in Users |->
                     [stripeAccountId |-> IF onboarded THEN AcctOf(u) ELSE NoAcct,
                      payoutsEnabled |-> FALSE]]
       /\ IF onboarded
            THEN accounts \in [AcctIds -> AccountStates]
            ELSE accounts = [a \in AcctIds |-> [created |-> FALSE, payouts_enabled |-> FALSE,
                                                transfers |-> "inactive"]]
       /\ \E owners \in [1..n -> Users \cup {OtherSeller}] :
            pending = [k \in 1..n |-> SellerRow(k, owners[k])]
       /\ sessions = [s \in 1..n |-> [item |-> "i1", dest |-> NoAcct, status |-> "paid"]]
       /\ processedEvents = [e \in EventTypes \X (1..n) |-> IF e[1] = Completed THEN 1 ELSE 0]
       /\ tokens = {[token |-> s, item |-> "i1", sessionId |-> s, usedOnce |-> FALSE,
                       expiresAt |-> TokenTtlMin] : s \in 1..n}
  /\ transfers = EmptyBag
  /\ wh = [h \in Handlers |-> WhIdle]
  /\ sp = SpIdle
  /\ rd = RdIdle
  /\ ad = AdIdle
  /\ dl = DlIdle
  /\ sy = SyIdle
  /\ rs = RsIdle
  /\ co = CoIdle
  /\ now = 0
  /\ nRequests = 0
  /\ feeIn = 0
  /\ feeOut = FeeNone

NextReturn == ReturnDrain \/ OutsideDrain

SpecReturn == InitReturn /\ [][NextReturn]_vars

----------------------------------------------------------------------------
(* Checkout on its own: Connect use switched on or off, the fee percentage  *)
(* set or unset, the seller with or without an account and with a stored    *)
(* flag that may be stale, while the processor changes the account.         *)

InitCheckout ==
  /\ env \in [PLATFORM_FEE_PERCENT : {EnvUnset} \cup EnvFeeValues,
              STRIPE_WEBHOOK_SECRET : {TRUE},
              USE_STRIPE_CONNECT : BOOLEAN, ADMIN_TOKEN : {"secret"}]
  /\ \E onboarded \in BOOLEAN :
       /\ users \in [Users -> [stripeAccountId : {IF onboarded THEN AcctOf("u1") ELSE NoAcct},
                               payoutsEnabled : IF onboarded THEN BOOLEAN ELSE {FALSE}]]
       /\ IF onboarded
            THEN accounts \in [AcctIds -> AccountStates]
            ELSE accounts = [a \in AcctIds |-> [created |-> FALSE, payouts_enabled |-> FALSE,
                                                transfers |-> "inactive"]]
  /\ sessions = [s \in SessionIds |-> NoSession]
  /\ processedEvents = [e \in EventIds |-> 0]
  /\ tokens = {}
  /\ pending = <<>>
  /\ transfers = EmptyBag
  /\ wh = [h \in Handlers |-> WhIdle]
  /\ sp = SpIdle
  /\ rd = RdIdle
  /\ ad = AdIdle
  /\ dl = DlIdle
  /\ sy = SyIdle
  /\ rs = RsIdle
  /\ co = CoIdle
  /\ now = 0
  /\ nRequests = 0
  /\ feeIn = 0
  /\ feeOut = FeeNone

NextCheckout ==
  \/ \E s \in SessionIds, i \in Items, ok \in BOOLEAN : Checkout(s, i, ok)
  \/ OutsideDrain
  \/ ConnectReset

SpecCheckout == InitCheckout /\ [][NextCheckout]_vars

----------------------------------------------------------------------------
(* The buyer comes back later: the webhook has issued the token of session  *)
(* 1 at time 0, and the success page and download links are requested while *)
(* time passes and the TTL index removes what has expired.                  *)

InitRevisit ==
  /\ env \in [PLATFORM_FEE_PERCENT : {20}, STRIPE_WEBHOOK_SECRET : {TRUE},
              USE_STRIPE_CONNECT : {TRUE}, ADMIN_TOKEN : {"secret"}]
  /\ users = [u \in Users |-> [stripeAccountId |-> AcctOf(u), payoutsEnabled |-> TRUE]]
  /\ accounts = [a \in AcctIds |-> [created |-> TRUE, payouts_enabled |-> TRUE,
                                    transfers |-> "active"]]
  /\ sessions = [s \in SessionIds |-> [item |-> "i1", dest |-> AcctOf("u1"), status |-> "paid"]]
  /\ processedEvents = [e \in EventIds |-> IF e[1] = Completed THEN 1 ELSE 0]
  /\ tokens = {[token |-> s, item |-> "i1", sessionId |-> s, usedOnce |-> FALSE,
                  expiresAt |-> TokenTtlMin] : s \in SessionIds}
  /\ pending = <<>>
  /\ transfers = EmptyBag
  /\ wh = [h \in Handlers |-> WhIdle]
  /\ sp = SpIdle
  /\ rd = RdIdle
  /\ ad = AdIdle
  /\ dl = DlIdle
  /\ sy = SyIdle
  /\ rs = RsIdle
  /\ co = CoIdle
  /\ now = 0
  /\ nRequests = 0
  /\ feeIn = 0
  /\ feeOut = FeeNone

SpecRevisit == InitRevisit /\ [][NextDownload]_vars

----------------------------------------------------------------------------
(* The status refresh on its own: the seller has an account or not, the     *)
(* stored flag is right or stale, and the seller's pages and the onboarding *)
(* return are requested while the processor changes the account.            *)

InitSync ==
  /\ env \in [PLATFORM_FEE_PERCENT : {20}, STRIPE_WEBHOOK_SECRET : {TRUE},
              USE_STRIPE_CONNECT : {TRUE}, ADMIN_TOKEN : {"secret"}]
  /\ \E onboarded \in BOOLEAN, n \in 0..1 :
       /\ users \in [Users -> [stripeAccountId : {IF onboarded THEN AcctOf("u1") ELSE NoAcct},
                               payoutsEnabled : IF onboarded THEN BOOLEAN ELSE {FALSE}]]
       /\ IF onboarded
            THEN accounts \in [AcctIds -> AccountStates]
            ELSE accounts = [a \in AcctIds |-> [created |-> FALSE, payouts_enabled |-> FALSE,
                                                transfers |-> "inactive"]]
       /\ pending = [k \in 1..n |->
                       QueuedRow(k, IF onboarded THEN "payouts_disabled"
                                    ELSE "seller_no_stripe_account")]
       /\ sessions = [s \in 1..n |-> [item |-> "i1", dest |-> NoAcct, status |-> "paid"]]
       /\ processedEvents = [e \in EventTypes \X (1..n) |-> IF e[1] = Completed THEN 1 ELSE 0]
       /\ tokens = {[token |-> s, item |-> "i1", sessionId |-> s, usedOnce |-> FALSE,
                       expiresAt |-> TokenTtlMin] : s \in 1..n}
  /\ transfers = EmptyBag
  /\ wh = [h \in Handlers |-> WhIdle]
  /\ sp = SpIdle
  /\ rd = RdIdle
  /\ ad = AdIdle
  /\ dl = DlIdle
  /\ sy = SyIdle
  /\ rs = RsIdle
  /\ co = CoIdle
  /\ now = 0
  /\ nRequests = 0
  /\ feeIn = 0
  /\ feeOut = FeeNone

Sync ==
  \/ \E u \in Users : SyStart(u)
  \/ \E ok \in BOOLEAN : SyRetrieve(ok)
  \/ SySave
  \/ SyFinish

NextSync == Sync \/ ReturnDrain \/ OutsideDrain

SpecSync == InitSync /\ [][NextSync]_vars

----------------------------------------------------------------------------
(* The seller's account pages together: status refresh, onboarding, return  *)
(* and reset for one seller, interleaved.                                   *)

NextConnect == NextSync \/ ConnectReset

SpecConnect == InitSync /\ [][NextConnect]_vars

----------------------------------------------------------------------------
(* The drains over rows that grow old: the drains of SpecDrain while time   *)
(* passes beyond the rows' expiresAt.                                       *)

NextExpiry == NextDrain \/ Tick

SpecExpiry == InitDrain /\ [][NextExpiry]_vars

----------------------------------------------------------------------------
(* The sale of SpecSale with a database that may fail to record an event    *)

NextRecord ==
  \/ NextSale
  \/ \E h \in Handlers, type \in EventTypes, s \in SessionIds : WhReceiveUnrecorded(h, type, s)

SpecRecord == InitSale /\ [][NextRecord]_vars

----------------------------------------------------------------------------
(* Properties *)

\* C1: for every payment-intent, whatever webhook deliveries and drains have
\* run, at most one transfer has been created for it
C1_OneTransferPerPayment == \A s \in SessionIds : TransfersFor(s) <= 1

\* C2: when the webhook answers 200 (not as a duplicate) to a completed or
\* async_payment_succeeded event of a payment without destination routing
\* for an item that has a seller, a transfer for the payment has been created
\* or a PendingTransfer row keyed by it exists
C2_OwedFactKept ==
  [][\A h \in Handlers :
       LET s == wh[h].sid
       IN (/\ wh[h].pc \notin {"idle", "done"} /\ wh'[h].pc = "done" /\ wh'[h].resp = "200"
           /\ wh[h].type \in SettleTypes
           /\ sessions[s].dest = NoAcct
           /\ ItemDb[sessions[s].item].ownerUser # NoUser)
          => (TransfersFor(s)' >= 1 \/ RowsOfPI(pending', s) # {})]_vars

\* C3: a verified delivery of an event id that is already recorded is answered
\* 200 {received, duplicate} at once and leaves the tokens, the PendingTransfer
\* rows, the users and the transfers as they were
C3_DuplicateHasNoEffect ==
  [][\A h \in Handlers :
       (/\ wh[h].pc = "idle" /\ wh'[h].pc # "idle" /\ wh'[h].resp # "400"
        /\ processedEvents[<<wh'[h].type, wh'[h].sid>>] > 0)
       => (/\ wh'[h].pc = "done" /\ wh'[h].resp = "200dup"
           /\ UNCHANGED <<tokens, pending, users, transfers>>)]_vars

C3_Witness ==
  \E h \in Handlers :
    /\ wh[h].pc = "done" /\ wh[h].resp = "200dup" /\ wh[h].type \in SettleTypes
    /\ tokens # {} /\ TransfersFor(wh[h].sid) = 1

\* C4: of the deliveries of one event id exactly one row is recorded: the
\* delivery that finds the id unrecorded records it and goes on to settlement,
\* any other (also one handled while the first is still running) is answered
\* as a duplicate, not as an error, so at most one running handler settles it
C4_FirstWriterWins ==
  [][/\ \A e \in EventIds : processedEvents'[e] <= 1
     /\ \A h \in Handlers :
          (wh[h].pc = "idle" /\ wh'[h].pc # "idle" /\ wh'[h].resp # "400")
          => LET e == <<wh'[h].type, wh'[h].sid>>
             IN /\ processedEvents'[e] = 1
                /\ IF processedEvents[e] = 0
                     THEN wh'[h].resp \in {"none", "200"}
                     ELSE wh'[h].pc = "done" /\ wh'[h].resp = "200dup"
     /\ \A g, h \in Handlers :
          (/\ g # h /\ wh'[g].pc \notin {"idle", "done"} /\ wh'[h].pc \notin {"idle", "done"})
          => <<wh'[g].type, wh'[g].sid>> # <<wh'[h].type, wh'[h].sid>>]_vars

C4_Witness ==
  \E g, h \in Handlers :
    /\ g # h /\ wh[g].type = wh[h].type /\ wh[g].sid = wh[h].sid
    /\ wh[g].pc \notin {"idle", "done"}
    /\ wh[h].pc = "done" /\ wh[h].resp = "200dup"

C6_DrainedRowPaidOnce ==
  \A s \in SessionIds :
    (\E t \in BagToSet(transfers) : t.pi = s /\ t.via \in {"return", "admin"})
    => TransfersFor(s) <= 1

\* C7: when the account was reported payouts-enabled, seller_amount is
\* positive and stripe.transfers.create raised, then as the handler answers a
\* PendingTransfer row of the payment exists with reason 'exception' and
\* amount seller_amount
C7_ExceptionIsQueued ==
  [][\A h \in Handlers :
       LET s == wh[h].sid
       IN (/\ wh[h].pc \in {"transfer", "catch"} /\ wh'[h].pc = "done"
           /\ wh'[h].transferCall = "threw"
           /\ wh[h].acctSeen = "enabled")
          => \E k \in RowsOfPI(pending', s) :
               /\ pending'[k].reason = "exception"
               /\ pending'[k].amount = SellerAmount(sessions[s].item)]_vars

\* C8: the webhook calls stripe.transfers.create only for a seller with an
\* account id, an account whose retrieval in this run reported payouts_enabled
\* and a positive seller_amount
C8_TransferOnlyWhenConfirmed ==
  [][\A h \in Handlers :
       (wh[h].pc = "transfer" /\ wh'[h].transferCall \in {"ok", "threw"})
       => /\ wh[h].sellerAcct # NoAcct
          /\ wh[h].acctSeen = "enabled"
          /\ SellerAmount(sessions[wh[h].sid].item) > 0]_vars

\* C9: no two PendingTransfer rows carry the same payment-intent id, and a
\* row's seller, item, amount and currency are the ones of its payment, so
\* that another enqueue for the payment leaves the same single row
C9_OneRowPerPayment ==
  /\ \A s \in SessionIds : Cardinality(RowsOfPI(pending, s)) <= 1
  /\ \A k \in DOMAIN pending :
       LET i == sessions[pending[k].paymentIntentId].item
       IN /\ pending[k].item = i
          /\ pending[k].seller = ItemDb[i].ownerUser
          /\ pending[k].amount = SellerAmount(i)
          /\ pending[k].currency = ItemDb[i].currency

C9_Witness ==
  /\ Len(pending) = 1
  /\ \A h \in Handlers : wh[h].pc = "done" /\ wh[h].marked # "none"
  /\ \A g, h \in Handlers : wh[g].sid = wh[h].sid /\ (g # h => wh[g].type # wh[h].type)

\* C10: for every price from 0 to MaxPrice and every fee percent from 0 to
\* MaxFeePercent the fee is floor(price * percent / 100) and the seller
\* amount and the fee add up to the price
C10_FeeIsExactFloor ==
  feeOut.computed =>
    /\ feeOut.fee = (feeIn * WebhookFeePercent) \div 100
    /\ feeOut.sellerAmount + feeOut.fee = feeIn

\* C11: when the handler of a paid event of a charge without destination
\* routing, whose seller's account was reported payouts-enabled, has its
\* transfer accepted, exactly one transfer is added, of amount
\* p - floor(p * f / 100), in the item's currency, to the seller's account
C11_TransferOfSellerShare ==
  [][\A h \in Handlers :
       (/\ wh[h].pc = "transfer" /\ wh'[h].transferCall = "ok"
        /\ wh[h].paid /\ wh[h].acctSeen = "enabled")
       => LET s == wh[h].sid
              i == sessions[s].item
              p == ItemDb[i].price
          IN transfers' = transfers (+) SetToBag({
               NewTransfer(p - ((p * WebhookFeePercent) \div 100), ItemDb[i].currency,
                           users[ItemDb[i].ownerUser].stripeAccountId,
                           TransferGroup(i), s, "webhook")})]_vars

C14_DestinationChargeUntouched ==
  [][\A h \in Handlers :
       (/\ wh[h].pc = "payout" /\ wh'[h].pc # "payout"
        /\ wh'[h].transferCall # "retrieveThrew"
        /\ sessions[wh[h].sid].dest # NoAcct)
       => /\ wh'[h].pc = "done" /\ wh'[h].resp = "200" /\ wh'[h].marked = "none"
          /\ UNCHANGED <<pending, transfers>>]_vars

C14_Witness ==
  \E h \in Handlers :
    /\ wh[h].pc = "done" /\ wh[h].resp = "200" /\ wh[h].type \in SettleTypes /\ wh[h].paid
    /\ wh[h].transferCall = "none"
    /\ sessions[wh[h].sid].dest # NoAcct
    /\ pending = <<>> /\ transfers = EmptyBag /\ tokens # {}

\* C15: in either drain, a row whose transfer is accepted is transferred with
\* the row's amount and then removed, and a row whose transfer is refused is
\* left in the queue, no row being changed
C15_DrainedRowLeavesQueue ==
  [][/\ (rd.pc = "send" /\ rd'.pc = "delete")
        => LET p == Head(rd.queue)
           IN /\ transfers' = transfers (+) SetToBag({
                   NewTransfer(p.amount, p.currency, rd.acct, p.transferGroup,
                               p.paymentIntentId, "return")})
              /\ UNCHANGED pending
     /\ (rd.pc = "delete" /\ rd' # rd)
        => /\ SeqIds(pending') = SeqIds(pending) \ {Head(rd.queue).id}
           /\ \A k \in DOMAIN pending' : \E m \in DOMAIN pending : pending'[k] = pending[m]
           /\ UNCHANGED transfers
     /\ (rd.pc = "send" /\ rd' # rd /\ rd'.pc # "delete")
        => UNCHANGED <<pending, transfers>>
     /\ (ad.pc = "send" /\ ad'.pc = "delete")
        => LET p == Head(ad.queue)
           IN /\ transfers' = transfers (+) SetToBag({
                   NewTransfer(p.amount, p.currency, ad.sellerAcct, p.transferGroup,
                               p.paymentIntentId, "admin")})
              /\ UNCHANGED pending
     /\ (ad.pc = "delete" /\ ad' # ad)
        => /\ SeqIds(pending') = SeqIds(pending) \ {Head(ad.queue).id}
           /\ \A k \in DOMAIN pending' : \E m \in DOMAIN pending : pending'[k] = pending[m]
           /\ UNCHANGED transfers
     /\ (ad.pc = "send" /\ ad' # ad /\ ad'.pc # "delete")
        => UNCHANGED <<pending, transfers>>]_vars

C15_Witness ==
  /\ rd.pc = "done" /\ rd.resp = "200" /\ ad.pc = "idle" /\ nRequests = 1
  /\ \E t \in BagToSet(transfers) : t.pi = 1 /\ t.via = "return" /\ t.amount = 800
  /\ BagCardinality(transfers) = 1
  /\ RowsOfPI(pending, 1) = {}
  /\ \E k \in RowsOfPI(pending, 2) : pending[k] = QueuedRow(2, "payouts_disabled")

\* C16: in either drain, after a row whose transfer is refused the drain
\* goes on to the next row of its snapshot, and after the last row it answers
\* with its normal response
C16_FailureDoesNotAbortBatch ==
  [][/\ (rd.pc = "send" /\ rd' # rd /\ rd'.pc # "delete")
        => IF Len(rd.queue) > 1
             THEN rd'.pc = "send" /\ rd'.queue = Tail(rd.queue)
             ELSE rd'.pc = "done" /\ rd'.resp = "200"
     /\ (ad.pc = "send" /\ ad' # ad /\ ad'.pc # "delete")
        => IF Len(ad.queue) > 1
             THEN ad'.pc = "seller" /\ ad'.queue = Tail(ad.queue)
             ELSE ad'.pc = "done" /\ ad'.resp = "200"]_vars

C16_Witness ==
  /\ rd.pc = "done" /\ rd.resp = "200" /\ ad.pc = "idle" /\ nRequests = 1
  /\ TransfersFor(1) = 0 /\ TransfersFor(2) = 1
  /\ RowsOfPI(pending, 1) # {} /\ RowsOfPI(pending, 2) = {}

\* C17, the run's own steps: the administrative drain takes every queued row into its snapshot
\* and reports one outcome for each row in turn, one of skip_no_account,
\* skip_payouts_disabled, transferred or error; a row is reported transferred
\* exactly when this run had a transfer of the row's amount to its seller's
\* account accepted, and the row is then gone; a row reported skipped or
\* error is left in the queue by the drain
C17_OneOutcomePerRow ==
  [][/\ (ad.pc = "idle" /\ ad'.pc \notin {"idle", "done"})
        => ad'.queue = pending /\ ad'.results = <<>>
     /\ (ad.pc = "idle" /\ ad'.pc = "done" /\ ad'.resp = "200")
        => pending = <<>> /\ ad'.results = <<>>
     /\ (ad.pc = "send" /\ ad'.pc = "delete")
        => LET p == Head(ad.queue)
           IN /\ ad'.results = ad.results /\ ad'.queue = ad.queue
              /\ transfers' = transfers (+) SetToBag({
                   NewTransfer(p.amount, p.currency, users[p.seller].stripeAccountId,
                               p.transferGroup, p.paymentIntentId, "admin")})
     /\ (ad.pc \in {"seller", "send", "delete"} /\ ad'.queue # ad.queue)
        => LET p  == Head(ad.queue)
               st == ad'.results[Len(ad'.results)].status
           IN /\ ad'.results = Append(ad.results, [id |-> p.id, status |-> st])
              /\ ad'.queue = Tail(ad.queue)
              /\ IF ad'.queue = <<>> THEN ad'.pc = "done" /\ ad'.resp = "200"
                 ELSE ad'.pc = "seller"
              /\ st \in {"skip_no_account", "skip_payouts_disabled", "transferred", "error"}
              /\ st = "transferred" <=> ad.pc = "delete"
              /\ st = "error" <=> ad.pc = "send"
              /\ st = "skip_no_account"
                   <=> (ad.pc = "seller" /\ users[p.seller].stripeAccountId = NoAcct)
              /\ st = "transferred" => p.id \notin SeqIds(pending') /\ UNCHANGED transfers
              /\ st # "transferred" => UNCHANGED <<pending, transfers>>]_vars

C17_Witness ==
  /\ ad.pc = "done" /\ ad.resp = "200" /\ rd.pc = "idle" /\ nRequests = 1
  /\ Len(ad.results) = 2
  /\ ad.results[1] = [id |-> 1, status |-> "error"]
  /\ ad.results[2] = [id |-> 2, status |-> "transferred"]
  /\ TransfersFor(1) = 0 /\ TransfersFor(2) = 1
  /\ SeqIds(pending) = {1}

\* C17, the state of the ledger when the report is sent: when the
\* administrative drain answers, every row it reported skipped or error is in
\* the queue
C17_ReportedRowsStillQueued ==
  (ad.pc = "done" /\ ad.resp = "200")
    => \A i \in 1..Len(ad.results) :
         ad.results[i].status # "transferred" => ad.results[i].id \in SeqIds(pending)

\* C18: a request to the administrative drain whose bearer token differs
\* from the admin secret, or that arrives while no admin secret is set, is
\* answered 403 at once, and creates no transfer and changes no queued row
C18_ForbiddenDrainTouchesNothing ==
  [][/\ (ad.pc = "idle" /\ ad'.pc # "idle"
           /\ (env.ADMIN_TOKEN = "" \/ ad'.token # env.ADMIN_TOKEN))
        => /\ ad'.pc = "done" /\ ad'.resp = "403"
           /\ UNCHANGED <<pending, transfers>>
     /\ (ad.pc \in {"seller", "send", "delete"} \/ (ad.pc = "done" /\ ad.resp = "200"))
        => (env.ADMIN_TOKEN # "" /\ ad.token = env.ADMIN_TOKEN)]_vars

C18_Witness ==
  /\ ad.pc = "done" /\ ad.resp = "403"
  /\ env.ADMIN_TOKEN = "" /\ ad.token = ""
  /\ pending # <<>> /\ transfers = EmptyBag
  /\ users["u1"].stripeAccountId # NoAcct
  /\ accounts[AcctOf("u1")].payouts_enabled

\* C19: a webhook delivery whose signature check fails is answered 400 in
\* the step that receives it and goes no further; that step records no
\* ProcessedEvent, creates no DownloadToken, transfer or PendingTransfer, and
\* changes no user, account or session
C19_BadSignatureMutatesNothing ==
  [][\A h \in Handlers :
       /\ (wh[h].pc = "idle" /\ wh'[h].pc # "idle" /\ ~wh'[h].sigOK)
          => /\ wh'[h].pc = "done" /\ wh'[h].resp = "400"
             /\ UNCHANGED <<processedEvents, tokens, pending, transfers, World>>
       /\ (wh[h].pc # "idle" /\ ~wh[h].sigOK)
          => wh[h].pc = "done" /\ wh[h].resp = "400"]_vars

C19_Witness ==
  \E h \in Handlers :
    /\ wh[h].pc = "done" /\ wh[h].resp = "400" /\ ~wh[h].sigOK
    /\ SessionPaid(1)
    /\ processedEvents[<<Completed, 1>>] = 0
    /\ tokens = {} /\ pending = <<>> /\ transfers = EmptyBag

\* C20: a verified delivery that is not a duplicate is answered 200
\* {received: true} whatever goes wrong while the token is issued or the
\* payout is settled
C20_VerifiedEventAnswered200 ==
  \A h \in Handlers :
    (wh[h].pc = "done" /\ wh[h].sigOK /\ wh[h].resp # "200dup") => wh[h].resp = "200"

\* C21: when a delivery of a paid event has ended in a 500, a later verified
\* delivery of the same event id is not answered as a duplicate: it runs the
\* settlement again
C21_RedeliveryResettles ==
  [][\A g, h \in Handlers :
       (/\ g # h
        /\ wh[g].pc = "done" /\ wh[g].resp = "500" /\ wh[g].paid
        /\ wh[h].pc = "idle" /\ wh'[h].pc # "idle" /\ wh'[h].sigOK
        /\ wh'[h].type = wh[g].type /\ wh'[h].sid = wh[g].sid)
       => wh'[h].resp # "200dup"]_vars

\* C22: one token per session is stored, and the handler whose insert is
\* refused by the sessionId index does not fail: the success page is not
\* answered with the error page, and the webhook is answered 200
C22_LosingInsertDoesNotFail ==
  /\ \A s \in SessionIds : Cardinality({t \in tokens : t.sessionId = s}) <= 1
  /\ sp.pc = "done" => sp.resp # "500"
  /\ \A h \in Handlers :
       (/\ wh[h].pc = "done" /\ wh[h].sigOK /\ wh[h].paid
        /\ \E t \in tokens : t.sessionId = wh[h].sid)
         => wh[h].resp \in {"200", "200dup"}

C24_TokenGrantsOneDownload ==
  [][(dl.pc = "idle" /\ dl'.pc # "idle" /\ dl'.token \in dl.granted)
       => dl'.pc = "done" /\ dl'.resp = "410used"]_vars

\* C25: a download request goes on to the asset only if a DownloadToken with
\* its token string is stored, not used and not past its expiry; an unknown
\* token is answered 404 and a used or expired one 410, and only a request
\* that passed these checks is granted access
C25_RedeemOnlyValidToken ==
  [][/\ (dl.pc = "idle" /\ dl'.pc # "idle")
        => LET docs == {d \in tokens : d.token = dl'.token}
           IN IF docs = {} THEN dl'.pc = "done" /\ dl'.resp = "404"
              ELSE IF \E d \in docs : d.usedOnce \/ d.expiresAt < now
                THEN dl'.pc = "done" /\ dl'.resp \in {"410used", "410expired"}
              ELSE dl'.pc = "serve" /\ dl'.item = (CHOOSE d \in docs : TRUE).item
     /\ (dl'.granted # dl.granted \/ (dl'.resp = "200" /\ dl.resp # "200"))
        => /\ dl.pc = "serve" /\ dl'.pc = "done" /\ dl'.resp = "200"
           /\ dl'.granted = dl.granted \cup {dl.token}]_vars

C25_Witness ==
  /\ dl.pc = "done" /\ dl.resp = "404" /\ dl.token = 2
  /\ 1 \in dl.granted
  /\ \A d \in tokens : d.token # 2

\* C26: when the user has a payout account and the retrieval succeeds,
\* getConnectStatus returns the payouts_enabled value it retrieved, and when
\* it returns the stored User.payoutsEnabled equals that value
C26_SyncPersistsLiveFlag ==
  [][(sy.pc # "done" /\ sy'.pc = "done" /\ sy'.hasAccount /\ ~sy'.failed)
       => /\ sy'.payoutsEnabled = sy'.live
          /\ users'[sy.user].payoutsEnabled = sy'.live]_vars

\* C27: when the account retrieval fails, getConnectStatus returns to its
\* caller the payoutsEnabled flag it loaded from the user document, and the
\* step writes nothing to the stored user
C27_SyncFallsBackToCachedFlag ==
  [][/\ (sy.pc = "idle" /\ sy'.pc # "idle")
        => sy'.cached = users[sy'.user].payoutsEnabled
     /\ (sy.pc = "retrieve" /\ sy'.failed)
        => /\ sy'.pc = "done" /\ sy'.hasAccount
           /\ sy'.payoutsEnabled = sy.cached
           /\ UNCHANGED users]_vars

C27_Witness ==
  /\ sy.pc = "done" /\ sy.failed /\ sy.hasAccount
  /\ sy.payoutsEnabled /\ users[sy.user].payoutsEnabled
  /\ ~accounts[sy.acct].payouts_enabled
  /\ rd.pc = "idle" /\ nRequests = 1

\* C28: a PendingTransfer row past its expiry horizon is terminal: neither
\* drain creates a transfer for it, and a row marked expired is never queued
\* again
C28_ExpiredRowIsTerminal ==
  [][/\ (rd.pc = "send" /\ Head(rd.queue).expiresAt < now) => UNCHANGED transfers
     /\ (ad.pc = "send" /\ Head(ad.queue).expiresAt < now) => UNCHANGED transfers
     /\ \A k \in DOMAIN pending :
          pending[k].status = "expired"
            => \A m \in DOMAIN pending' :
                 pending'[m].id = pending[k].id => pending'[m].status = "expired"]_vars

\* C29: every transfer, whichever path created it, carries the
\* transfer_group item_<itemId> that checkout gave the payment-intent it was
\* made for, and every PendingTransfer row stores that value
C29_TransferGroupFollowsPayment ==
  /\ \A t \in BagToSet(transfers) :
       t.transfer_group = TransferGroup(sessions[t.pi].item)
  /\ \A k \in DOMAIN pending :
       pending[k].transferGroup = TransferGroup(sessions[pending[k].paymentIntentId].item)

C29_Witness ==
  /\ \E t \in BagToSet(transfers) :
       t.via = "return" /\ t.pi = 1 /\ t.transfer_group = "item_i1"
  /\ sessions[1].item = "i1"
  /\ pending = <<>>

\* C30: a DownloadToken exists only for a session whose payment has been
\* confirmed: no stored token belongs to a session that was never paid
C30_TokenOnlyForPaidSession ==
  \A t \in tokens : sessions[t.sessionId].status \in {"paid", "async_paid"}

C30_Witness ==
  /\ wh[1].pc = "done" /\ wh[1].resp = "200" /\ wh[1].sigOK
  /\ wh[1].type = Completed /\ ~wh[1].paid
  /\ sessions[1].status = "async_paid"
  /\ \E t \in tokens : t.sessionId = 1

\* C31: while it handles a checkout.session.completed event whose session
\* is not paid, the webhook creates no transfer and enqueues no
\* PendingTransfer row
C31_NoPayoutBeforePayment ==
  [][\A h \in Handlers :
       (/\ wh[h].pc \notin {"idle", "done"} /\ wh'[h] # wh[h]
        /\ wh[h].sigOK /\ wh[h].type = Completed /\ ~wh[h].paid)
       => UNCHANGED <<transfers, pending>>]_vars

\* C33: the webhook answers {received: true, duplicate: true} only when a
\* ProcessedEvent for the event id had been recorded before the delivery
C33_DuplicateOnlyIfRecorded ==
  [][\A h \in Handlers :
       (wh[h].pc = "idle" /\ wh'[h].pc = "done" /\ wh'[h].resp = "200dup")
       => processedEvents[<<wh'[h].type, wh'[h].sid>>] > 0]_vars

\* C34: for the same price and the same PLATFORM_FEE_PERCENT environment,
\* unset included, the platform fee checkout takes on a destination charge
\* equals the fee the webhook deducts for a separate transfer
C34_SameFeeOnBothRoutes ==
  (feeOut.computed /\ feeOut.quoted) => feeOut.platformFee = feeOut.fee

\* C32: under any interleaving of onboarding, return, reset and the status
\* refresh for one user, a stored user whose payoutsEnabled is true has a
\* non-empty stripeAccountId
C32_EnabledUserHasAccount ==
  \A u \in Users : users[u].payoutsEnabled => users[u].stripeAccountId # NoAcct

\* C35: every transfer created by the immediate path or by a drain has a
\* strictly positive amount, and no drain reaches stripe.transfers.create with
\* a row of non-positive amount or of reason non_positive_amount
C35_OnlyPositiveAmountsSubmitted ==
  /\ \A t \in BagToSet(transfers) : t.amount > 0
  /\ rd.pc = "send" =>
       /\ Head(rd.queue).amount > 0
       /\ Head(rd.queue).reason # "non_positive_amount"
  /\ ad.pc = "send" =>
       /\ Head(ad.queue).amount > 0
       /\ Head(ad.queue).reason # "non_positive_amount"

\* C36: over the whole history of a session, expiry and the TTL sweep of its
\* token included, no second DownloadToken is created for it: every token
\* stored for a session is the one issued at time 0
C36_NoSecondTokenForSession ==
  \A t \in tokens : t.expiresAt = TokenTtlMin

\* C37: a checkout sets transfer_data.destination to the owner's account and
\* application_fee_amount to the platform fee exactly when Connect use is
\* enabled, the item's owner has an account and the live retrieval answered
\* with transfers active and payouts_enabled; otherwise (a failed retrieval
\* included) it sets neither; the stored payoutsEnabled flag plays no part
C37_DestinationIffLiveAccountReady ==
  [][\A s \in SessionIds :
       (sessions[s].status = "absent" /\ sessions'[s].status = "open") =>
         LET i     == sessions'[s].item
             owner == ItemDb[i].ownerUser
             acct  == IF owner = NoUser THEN NoAcct ELSE users[owner].stripeAccountId
             ready == /\ env.USE_STRIPE_CONNECT
                      /\ acct # NoAcct
                      /\ co'.retrieved
                      /\ accounts[acct].transfers = "active"
                      /\ accounts[acct].payouts_enabled
         IN /\ sessions'[s].dest = (IF ready THEN acct ELSE NoAcct)
            /\ co'.destination = sessions'[s].dest
            /\ co'.application_fee_amount =
                 (IF ready THEN PlatformFee(ItemDb[i].price) ELSE NoFee)]_vars

\* a destination charge with a positive application fee was created for a
\* seller whose stored flag is false
C37_Witness ==
  /\ co.destination # NoAcct
  /\ co.application_fee_amount > 0
  /\ \E u \in Users : users[u].stripeAccountId = co.destination /\ ~users[u].payoutsEnabled

\* C38: a step of the return-flow handler leaves every row of another seller
\* in the ledger as it is, and every row at all when the live retrieval did
\* not report payouts_enabled; a transfer it creates is for a stored row of
\* the returning user, to that user's account, after payouts_enabled was seen
C38_ReturnDrainTouchesOnlyOwnRows ==
  [][/\ (rd.pc = "idle" /\ rd'.pc = "save") =>
          rd'.enabled = accounts[users[rd'.user].stripeAccountId].payouts_enabled
     /\ \A k \in DOMAIN pending :
          (pending[k].seller # rd.user \/ ~rd.enabled)
            => \E m \in DOMAIN pending' : pending'[m] = pending[k]
     /\ transfers' # transfers =>
          /\ rd.enabled
          /\ \E p \in {Head(rd.queue)} :
               /\ p.seller = rd.user
               /\ transfers' = transfers (+) SetToBag({
                    NewTransfer(p.amount, p.currency, users[rd.user].stripeAccountId,
                                p.transferGroup, p.paymentIntentId, "return")})]_vars

\* the returning seller's rows have been transferred and removed while a row
\* of another seller is still queued
C38_Witness ==
  /\ rd.pc = "done" /\ rd.enabled
  /\ transfers # EmptyBag
  /\ \E k \in DOMAIN pending : pending[k].seller = OtherSeller
  /\ \A k \in DOMAIN pending : pending[k].seller # rd.user

\* C40: every stored DownloadToken references the item named by the
\* metadata.itemId of the session it was issued for
C40_TokenItemIsSessionItem ==
  \A t \in tokens : t.item = sessions[t.sessionId].item

\* the success page was asked for another item than the session paid for and
\* refused, and the session's token is stored
C40_Witness ==
  /\ sp.pc = "done" /\ sp.resp = "403"
  /\ SessionPaid(sp.sid) /\ sessions[sp.sid].item # sp.item
  /\ \E t \in tokens : t.sessionId = sp.sid

\* C39: with drains that keep being invoked and a processor that accepts
\* in the end, every queued row whose seller has a payouts-enabled account is
\* eventually transferred and removed, and the ledger of such a seller ends
\* up empty
C39_BacklogEventuallyDrained ==
  \A u \in Users :
    /\ \A k \in 1..MaxRows :
         (/\ \E m \in DOMAIN pending : pending[m].id = k /\ pending[m].seller = u
          /\ users[u].stripeAccountId # NoAcct
          /\ accounts[AcctOf(u)].payouts_enabled)
           ~> (/\ \A m \in DOMAIN pending : pending[m].id # k
               /\ \E t \in BagToSet(transfers) :
                    t.pi = k /\ t.destination = users[u].stripeAccountId)
    /\ (users[u].stripeAccountId # NoAcct /\ accounts[AcctOf(u)].payouts_enabled)
         ~> [](\A m \in DOMAIN pending : pending[m].seller # u)

\* the operator's drain has just transferred and removed the last row of a
\* ledger that an earlier drain had left one row in
C39_Witness ==
  /\ pending = <<>>
  /\ BagCardinality(transfers) = MaxRows
  /\ ad.pc = "done" /\ Len(ad.results) = 1 /\ ad.results[1].status = "transferred"

====
